---- MODULE Spec2Model ----
(***************************************************************************)
(* Model of awpy's plotting module (awpy/plot/plot.py): plot, heatmap, gif *)
(* and _generate_frame_plot, over the map table of awpy/data/map_data.py,  *)
(* and of associate_entities (awpy/parser/cleaning.py).                    *)
(*                                                                         *)
(* Numbers: alpha values are in thousandths (1.0 = 1000), the heatmap's    *)
(* alpha arguments are in tenths (0.5 = 5), lengths on the canvas are in   *)
(* hundredths of a data unit, map scales are in millionths.                *)
(* Optional values (Python None) are sequences of length at most one.      *)
(***************************************************************************)
EXTENDS Integers, Sequences, FiniteSets, TLC

MaxPoints == 2
MaxFrames == 2
MaxHeatPoints == 3
GridCells == 2

None == <<>>
Some(v) == <<v>>

RECURSIVE SeqsUpTo(_, _)
SeqsUpTo(S, n) ==
  IF n = 0 THEN {<<>>}
  ELSE LET shorter == SeqsUpTo(S, n - 1)
       IN  shorter \cup {Append(s, x) : s \in {t \in shorter : Len(t) = n - 1}, x \in S}

(***************************************************************************)
(* awpy/data/map_data.py.  lower_level_max is None for float("-inf").      *)
(***************************************************************************)
MapRec(px, py, sc, rot, zm, llm) ==
  [pos_x |-> px, pos_y |-> py, scale |-> sc, rotate |-> rot, zoom |-> zm,
   lower_level_max |-> llm]

MAP_DATA ==
  [m \in {"ar_baggage", "ar_shoots", "cs_office", "cs_italy", "de_ancient",
          "de_anubis", "de_dust", "de_dust2", "de_inferno", "de_inferno_s2",
          "de_mirage", "de_nuke", "de_overpass", "de_vertigo"} |->
     CASE m = "ar_baggage"    -> MapRec(-1316, 1288, 2539062, Some(1), Some(13), Some(-5))
       [] m = "ar_shoots"     -> MapRec(-1368, 1952, 2687500, None, None, None)
       [] m = "cs_office"     -> MapRec(-1838, 1858, 4100000, None, None, None)
       [] m = "cs_italy"      -> MapRec(-2647, 2592, 4600000, Some(1), Some(15), None)
       [] m = "de_ancient"    -> MapRec(-2953, 2164, 5000000, Some(0), Some(0), None)
       [] m = "de_anubis"     -> MapRec(-2796, 3328, 5220000, None, None, None)
       [] m = "de_dust"       -> MapRec(-2850, 4073, 6000000, Some(1), Some(13), None)
       [] m = "de_dust2"      -> MapRec(-2476, 3239, 4400000, Some(1), Some(11), None)
       [] m = "de_inferno"    -> MapRec(-2087, 3870, 4900000, None, None, None)
       [] m = "de_inferno_s2" -> MapRec(-2087, 3870, 4900000, None, None, None)
       [] m = "de_mirage"     -> MapRec(-3230, 1713, 5000000, Some(0), Some(0), None)
       [] m = "de_nuke"       -> MapRec(-3453, 2887, 7000000, None, None, Some(-495))
       [] m = "de_overpass"   -> MapRec(-4831, 1781, 5200000, Some(0), Some(0), None)
       [] m = "de_vertigo"    -> MapRec(-3168, 1762, 4000000, None, None, Some(11700))]

\* the table as the running process holds it (the module-level dict)
VARIABLE map_data

(***************************************************************************)
(* awpy.plot.utils (imported by plot.py, line 20).                         *)
(***************************************************************************)
is_position_on_lower_level(map, point) ==
  LET t == map_data[map].lower_level_max
  IN  t # None /\ point[3] < t[1]

RECURSIVE GCD(_, _)
GCD(a, b) == IF b = 0 THEN a ELSE GCD(b, a % b)

\* floor(n * 10^digits / d), by long division
RECURSIVE DivDigits(_, _, _)
DivDigits(n, d, digits) ==
  IF digits = 0 THEN n \div d
  ELSE (n \div d) * (10 ^ digits) + DivDigits((n % d) * 10, d, digits - 1)

\* pixel value in thousandths of a pixel: (position - start) / scale for x,
\* (start - position) / scale for y
position_transform_axis(map, v, axis) ==
  LET m == map_data[map]
      g == GCD(m.scale, 1000000)
      num == IF axis = "x" THEN (v - m.pos_x) * (1000000 \div g)
             ELSE (m.pos_y - v) * (1000000 \div g)
  IN  DivDigits(num, m.scale \div g, 3)

\* <<quotient, remainder>> of (q * d + r) * 10^digits divided by d
RECURSIVE ShiftDivMod(_, _, _, _)
ShiftDivMod(q, r, d, digits) ==
  IF digits = 0 THEN <<q, r>>
  ELSE ShiftDivMod(q * 10 + (r * 10) \div d, (r * 10) % d, d, digits - 1)

\* the projection without the origin subtracted
project_no_origin(map, whole, micro, axis) ==
  LET m == map_data[map]
      qr == ShiftDivMod(whole \div m.scale, whole % m.scale, m.scale, 6)
  IN  qr[1] * 1000 + DivDigits(qr[2] + micro, m.scale, 3)

\* the same projection for a position given as whole units plus millionths
project(map, whole, micro, axis) ==
  LET m == map_data[map]
      a == IF axis = "x" THEN whole - m.pos_x ELSE m.pos_y - whole
      f == IF axis = "x" THEN micro ELSE 0 - micro
      qr == ShiftDivMod(a \div m.scale, a % m.scale, m.scale, 6)
  IN  qr[1] * 1000 + DivDigits(qr[2] + f, m.scale, 3)

(***************************************************************************)
(* Inputs of the calls.                                                    *)
(***************************************************************************)
\* one map of each kind of lower_level_max: none, below 0, far below, above
CallMaps == {"de_dust2", "ar_baggage", "de_nuke", "de_vertigo"}

Points == { <<-2476, 3239, 0>>, <<0, 0, -600>> }

Setting(mk, col, sz, hp, ar, dir, lab) ==
  [marker |-> mk, color |-> col, size |-> sz, hp |-> hp, armor |-> ar,
   direction |-> dir, label |-> lab]

EmptySetting == Setting(None, None, None, None, None, None, None)

Settings ==
  { EmptySetting,
    Setting(None, None, None, Some(0), Some(0), Some(<<0, 90>>), Some("a")),
    Setting(Some("x"), Some("blue"), Some(20), Some(50), Some(100), Some(<<0, 0>>), Some("b")),
    Setting(None, None, None, Some(100), Some(0), None, None),
    Setting(None, None, None, Some(50), None, None, Some("c")),
    Setting(None, None, None, None, Some(50), Some(<<0, 180>>), None),
    Setting(None, None, Some(1), Some(100), Some(50), None, Some("d")) }

PointLists == SeqsUpTo(Points, MaxPoints)
SettingLists == SeqsUpTo(Settings, MaxPoints)
HeatPointLists == SeqsUpTo(Points, MaxHeatPoints)

(***************************************************************************)
(* plot(): the body of the per-point loop, lines 83-214.                   *)
(***************************************************************************)
DrawOp(kind, pt, alpha, color, dx, dy, w, h) ==
  [kind |-> kind, pt |-> pt, alpha |-> alpha, color |-> color,
   dx |-> dx, dy |-> dy, w |-> w, h |-> h]

\* settings.get(key, default)
GetOr(o, default) == IF o = None THEN default ELSE o[1]

\* math.cos / math.sin of math.radians(d), in thousandths, for right angles
CosDeg(d) == CASE d % 360 = 0 -> 1000 [] d % 360 = 90 -> 0
               [] d % 360 = 180 -> -1000 [] d % 360 = 270 -> 0
SinDeg(d) == CASE d % 360 = 0 -> 0 [] d % 360 = 90 -> 1000
               [] d % 360 = 180 -> 0 [] d % 360 = 270 -> -1000

\* line 93
BaseAlpha(hp) == IF hp = Some(0) THEN 150 ELSE 1000

\* lines 93-100 with line 97 assigning 0.4 instead of multiplying by it
ResolveAlpha_assign(map, point, lower, hp) ==
  LET base == BaseAlpha(hp)
  IN  IF is_position_on_lower_level(map, point)
      THEN (IF ~lower THEN 400 ELSE base)
      ELSE (IF lower THEN 0 ELSE base)

\* lines 93-100
ResolveAlpha(map, point, lower, hp) ==
  LET base == BaseAlpha(hp)
  IN  IF is_position_on_lower_level(map, point)
      THEN (IF ~lower THEN (base * 4) \div 10 ELSE base)
      ELSE (IF lower THEN 0 ELSE base)

\* lines 105-123
MarkerOps(k, st, a) ==
  LET size == GetOr(st.size, 10)
  IN  << DrawOp("marker", k, a, "black", 0, 0, size * 100, size * 100),
         DrawOp("marker", k, a, GetOr(st.color, "red"), 0, 0, size * 90, size * 90) >>

\* lines 125-183 with the armor bars placed at the offset of the HP bars
BarOps_armor_on_hp(k, st, a) ==
  LET size == GetOr(st.size, 10)
      bar_width == size * 200
      bar_length == size * 600
      vertical_offset == size * 350
      left == 0 - (bar_length \div 2)
  IN  IF st.hp # None /\ st.hp[1] # 0 /\ st.hp[1] > 0
      THEN LET three ==
                 << DrawOp("hp_bar_full", k, a, "red", left, vertical_offset,
                           bar_length, bar_width),
                    DrawOp("hp_bar", k, a, "green", left, vertical_offset,
                           (bar_length * st.hp[1]) \div 100, bar_width),
                    DrawOp("armor_bar_full", k, a, "lightgrey", left,
                           vertical_offset, bar_length, bar_width) >>
           IN  IF st.armor = None
               THEN [ops |-> three, raised |-> TRUE]
               ELSE [ops |-> Append(three,
                        DrawOp("armor_bar", k, a, "grey", left,
                               vertical_offset,
                               (bar_length * st.armor[1]) \div 100, bar_width)),
                     raised |-> FALSE]
      ELSE [ops |-> <<>>, raised |-> FALSE]

\* lines 125-183: the patches added, and whether line 176 raised TypeError
\* (bar_length * armor / 100 with armor None)
BarOps(k, st, a) ==
  LET size == GetOr(st.size, 10)
      bar_width == size * 200
      bar_length == size * 600
      vertical_offset == size * 350
      left == 0 - (bar_length \div 2)
  IN  IF st.hp # None /\ st.hp[1] # 0 /\ st.hp[1] > 0
      THEN LET three ==
                 << DrawOp("hp_bar_full", k, a, "red", left, vertical_offset,
                           bar_length, bar_width),
                    DrawOp("hp_bar", k, a, "green", left, vertical_offset,
                           (bar_length * st.hp[1]) \div 100, bar_width),
                    DrawOp("armor_bar_full", k, a, "lightgrey", left,
                           vertical_offset + bar_width, bar_length, bar_width) >>
           IN  IF st.armor = None
               THEN [ops |-> three, raised |-> TRUE]
               ELSE [ops |-> Append(three,
                        DrawOp("armor_bar", k, a, "grey", left,
                               vertical_offset + bar_width,
                               (bar_length * st.armor[1]) \div 100, bar_width)),
                     raised |-> FALSE]
      ELSE [ops |-> <<>>, raised |-> FALSE]

\* lines 185-198: hp > 0 with hp None raises TypeError
DirectionOps(k, st, a) ==
  LET size == GetOr(st.size, 10)
      line_length == size * 200
  IN  IF st.direction # None
      THEN IF st.hp = None
           THEN [ops |-> <<>>, raised |-> TRUE]
           ELSE IF st.hp[1] > 0
                THEN LET pitch == st.direction[1][1]
                         yaw == st.direction[1][2]
                         dx == (CosDeg(yaw) * CosDeg(pitch)) \div 1000
                         dy == (SinDeg(yaw) * CosDeg(pitch)) \div 1000
                     IN  [ops |-> << DrawOp("direction", k, a, "black",
                                            (dx * line_length) \div 1000,
                                            (dy * line_length) \div 1000, 0, 0) >>,
                          raised |-> FALSE]
                ELSE [ops |-> <<>>, raised |-> FALSE]
      ELSE [ops |-> <<>>, raised |-> FALSE]

\* lines 200-214 with the label anchored on the side of the bars
LabelOps_below_bars(k, st, a) ==
  LET size == GetOr(st.size, 10)
      bar_width == size * 200
      vertical_offset == size * 350
      label_offset == vertical_offset + (125 * bar_width) \div 100
  IN  IF st.label # None /\ st.label[1] # ""
      THEN << DrawOp("label", k, a, "white", 0, label_offset, 0, 0) >>
      ELSE <<>>

\* lines 200-214
LabelOps(k, st, a) ==
  LET size == GetOr(st.size, 10)
      bar_width == size * 200
      vertical_offset == size * 350
      label_offset == vertical_offset + (125 * bar_width) \div 100
  IN  IF st.label # None /\ st.label[1] # ""
      THEN << DrawOp("label", k, a, "white", 0, 0 - label_offset, 0, 0) >>
      ELSE <<>>

\* lines 83-214 for the k-th (point, settings) pair: what is drawn, in order,
\* and whether the body raised TypeError before finishing
PointOps(map, lower, k, point, st) ==
  LET a == ResolveAlpha(map, point, lower, st.hp)
      m == MarkerOps(k, st, a)
      b == BarOps(k, st, a)
      d == DirectionOps(k, st, a)
  IN  IF b.raised THEN [ops |-> m \o b.ops, raised |-> TRUE]
      ELSE IF d.raised THEN [ops |-> m \o b.ops, raised |-> TRUE]
      ELSE [ops |-> m \o b.ops \o d.ops \o LabelOps(k, st, a), raised |-> FALSE]

(***************************************************************************)
(* State.                                                                  *)
(***************************************************************************)
VARIABLES
  op,               \* the public function being executed: plot, heatmap, gif
  pc,               \* position in the code
  map_name, is_lower, img_exists,
  points,           \* plot: Optional list; heatmap: the list (filtered, line 338)
  point_settings,   \* plot: Optional list
  i,                \* plot: index of the next (point, settings) pair
  figs,             \* number of open matplotlib figures
  canvas,           \* what has been drawn on the current figure, in order
  trace,            \* the steps performed by the call so far, in order
  err,              \* the exception that ended the call, if any
  result,           \* the returned figure, if any
  method, vary_alpha, vary_alpha_range, alpha, min_alpha, max_alpha,
  temp_points,      \* heatmap: the points as given (line 337)
  x, y,             \* heatmap: projected coordinates (lines 356-357)
  warned,           \* heatmap: number of warnings.warn calls
  kde_lower_bound,  \* heatmap: in tenths
  grid,             \* heatmap: the array hexbin / histogram2d / kde returned
  layer,            \* heatmap: value and alpha of every cell of the mesh drawn
  frames_data, duration,
  fi,               \* gif: index of the frame being rendered
  rendered,         \* gif: the frame indices plot() was called for, in order
  frames,           \* gif: the images appended so far
  output,           \* gif: the written file, if any
  axis, world,      \* projection: the axis and the position <<whole, millionths>>
  pixel,            \* projection: the pixel value returned, in thousandths
  metric,           \* associate_entities: the metric argument
  game_names,       \* associate_entities: the list iterated (lines 62-63)
  entity_names,     \* associate_entities: the caller's list, popped at line 90
  entities,         \* associate_entities: the dict built, a set of <<key, value>>
  gn_i,             \* associate_entities: index of the next game name
  entity_ids,       \* for each remaining entity name, its position in the argument
  matches,          \* the <<game name index, argument position>> pairs matched
  names_given       \* associate_entities: the entity_names argument as passed

plotVars == <<points, point_settings, i>>
heatVars == <<method, vary_alpha, vary_alpha_range, alpha, min_alpha, max_alpha,
              temp_points, x, y, warned, kde_lower_bound, grid, layer>>
gifVars == <<frames_data, duration, fi, rendered, frames, output>>
callVars == <<op, map_name, is_lower, img_exists>>
projVars == <<axis, world, pixel>>
cleanVars == <<metric, game_names, entity_names, entities, gn_i, entity_ids,
               matches, names_given>>
vars == <<op, pc, map_name, is_lower, img_exists, points, point_settings, i,
          figs, canvas, trace, err, result, method, vary_alpha,
          vary_alpha_range, alpha, min_alpha, max_alpha, temp_points, x, y,
          warned, kde_lower_bound, grid, layer, frames_data, duration, fi,
          rendered, frames, output, map_data, axis, world, pixel, metric,
          game_names, entity_names, entities, gn_i, entity_ids, matches,
          names_given>>

Exc(type, site) == Some([type |-> type, site |-> site])

Init ==
  /\ op = "idle" /\ pc = "idle"
  /\ map_name = "de_dust2" /\ is_lower = FALSE /\ img_exists = TRUE
  /\ points = None /\ point_settings = None /\ i = 1
  /\ figs = 0 /\ canvas = <<>> /\ trace = <<>> /\ err = None /\ result = None
  /\ method = "hex" /\ vary_alpha = FALSE /\ vary_alpha_range = None
  /\ alpha = 5 /\ min_alpha = 0 /\ max_alpha = 10
  /\ temp_points = <<>> /\ x = <<>> /\ y = <<>> /\ warned = 0
  /\ kde_lower_bound = 1 /\ grid = <<>> /\ layer = <<>>
  /\ frames_data = <<>> /\ duration = 500 /\ fi = 1 /\ rendered = <<>>
  /\ frames = <<>> /\ output = None
  /\ map_data = MAP_DATA
  /\ axis = "x" /\ world = <<0, 0>> /\ pixel = None
  /\ metric = "lcss" /\ game_names = <<>> /\ entity_names = <<>>
  /\ entities = {} /\ gn_i = 1 /\ entity_ids = <<>> /\ matches = <<>>
  /\ names_given = None

(***************************************************************************)
(* plot(map_name, points, is_lower, point_settings)                        *)
(***************************************************************************)
OptLists(L) == {None} \cup {Some(l) : l \in L}

CallPlot ==
  /\ pc = "idle"
  /\ \E m \in CallMaps, l \in BOOLEAN, e \in BOOLEAN,
        p \in OptLists(PointLists), s \in OptLists(SettingLists) :
       /\ op' = "plot" /\ map_name' = m /\ is_lower' = l /\ img_exists' = e
       /\ points' = p /\ point_settings' = s
  /\ pc' = "p_image"
  /\ UNCHANGED <<i, figs, canvas, trace, err, result, heatVars, gifVars,
                 map_data, projVars, cleanVars>>

\* lines 57-71
PlotLoadImage ==
  /\ pc = "p_image"
  /\ IF ~img_exists
     THEN /\ pc' = "raised"
          /\ err' = Exc("FileNotFoundError", "map_image")
          /\ UNCHANGED <<figs, canvas, trace>>
     ELSE /\ pc' = "p_check"
          /\ figs' = figs + 1
          /\ canvas' = << DrawOp("imshow", 0, 1000, "", 0, 0, 0, 0) >>
          /\ trace' = trace \o <<"imread", "subplots", "imshow", "axis_off">>
          /\ err' = err
  /\ UNCHANGED <<callVars, map_data, projVars, cleanVars, plotVars, result, heatVars, gifVars>>

\* lines 74-80
PlotCheck ==
  /\ pc = "p_check"
  /\ IF points = None
     THEN /\ pc' = "p_finish"
          /\ UNCHANGED <<point_settings, i, err>>
     ELSE IF point_settings = None
     THEN /\ point_settings' = Some([k \in 1..Len(points[1]) |-> EmptySetting])
          /\ i' = 1
          /\ pc' = IF Len(points[1]) = 0 THEN "p_finish" ELSE "p_loop"
          /\ err' = err
     ELSE IF Len(points[1]) # Len(point_settings[1])
     THEN /\ pc' = "raised"
          /\ err' = Exc("ValueError", "point_settings")
          /\ UNCHANGED <<point_settings, i>>
     ELSE /\ i' = 1
          /\ pc' = IF Len(points[1]) = 0 THEN "p_finish" ELSE "p_loop"
          /\ UNCHANGED <<point_settings, err>>
  /\ UNCHANGED <<callVars, map_data, projVars, cleanVars, points, figs, canvas, trace, result, heatVars, gifVars>>

\* lines 83-214, one iteration
PlotPoint ==
  /\ pc = "p_loop"
  /\ LET r == PointOps(map_name, is_lower, i, points[1][i], point_settings[1][i])
     IN  /\ canvas' = canvas \o r.ops
         /\ trace' = trace \o <<"is_position_on_lower_level",
                                "position_transform_axis", "draw_point">>
         /\ IF r.raised
            THEN /\ pc' = "raised"
                 /\ err' = Exc("TypeError", "point_settings")
                 /\ i' = i
            ELSE /\ pc' = IF i = Len(points[1]) THEN "p_finish" ELSE "p_loop"
                 /\ i' = i + 1
                 /\ err' = err
  /\ UNCHANGED <<callVars, map_data, projVars, cleanVars, points, point_settings, figs, result, heatVars, gifVars>>

\* lines 216-219; the caller is the user (plot) or _generate_frame_plot (gif)
PlotFinish ==
  /\ pc = "p_finish"
  /\ trace' = trace \o <<"set_facecolor", "tight_layout">>
  /\ IF op = "plot"
     THEN pc' = "done" /\ result' = Some(canvas)
     ELSE pc' = "g_savefig" /\ result' = result
  /\ UNCHANGED <<callVars, map_data, projVars, cleanVars, plotVars, figs, canvas, err, heatVars, gifVars>>

(***************************************************************************)
(* gif(map_name, frames_data, output_filename, duration, is_lower) and     *)
(* _generate_frame_plot                                                    *)
(***************************************************************************)
Frame(p, s) == [points |-> p, point_settings |-> s]

FrameChoices ==
  { Frame(Some(<<>>), Some(<<>>)),
    Frame(None, None),
    Frame(Some(<< <<0, 0, -600>> >>),
          Some(<< Setting(Some("x"), Some("blue"), Some(20), Some(50), Some(100),
                          Some(<<0, 0>>), Some("b")) >>)),
    Frame(Some(<< <<-2476, 3239, 0>> >>), None),
    Frame(Some(<< <<-2476, 3239, 0>>, <<0, 0, -600>> >>), Some(<< EmptySetting >>)),
    Frame(Some(<< <<-2476, 3239, 0>> >>),
          Some(<< Setting(None, None, None, Some(50), None, None, Some("c")) >>)) }

FrameLists == SeqsUpTo(FrameChoices, MaxFrames)

CallGif ==
  /\ pc = "idle"
  /\ \E m \in CallMaps, l \in BOOLEAN, e \in BOOLEAN, f \in FrameLists,
        d \in {100, 500} :
       /\ op' = "gif" /\ map_name' = m /\ is_lower' = l /\ img_exists' = e
       /\ frames_data' = f /\ duration' = d
  /\ pc' = "g_loop"
  /\ fi' = 1 /\ frames' = <<>> /\ rendered' = <<>>
  /\ UNCHANGED <<plotVars, figs, canvas, trace, err, result, heatVars, output,
                 map_data, projVars, cleanVars>>

\* lines 239-242: the next frame is handed to plot()
GifNextFrame ==
  /\ pc = "g_loop"
  /\ fi <= Len(frames_data)
  /\ points' = frames_data[fi].points
  /\ point_settings' = frames_data[fi].point_settings
  /\ rendered' = Append(rendered, fi)
  /\ pc' = "p_image"
  /\ UNCHANGED <<callVars, map_data, projVars, cleanVars, i, figs, canvas, trace, err, result, heatVars,
                 frames_data, duration, fi, frames, output>>

\* lines 244-251 with the file rewritten after every frame
GifEncodeFrame_incremental ==
  /\ pc = "g_savefig"
  /\ frames' = Append(frames, canvas)
  /\ output' = Some([frames |-> Append(frames, canvas),
                     duration |-> duration, loop |-> 0])
  /\ trace' = trace \o <<"savefig", "close">>
  /\ figs' = figs - 1
  /\ canvas' = <<>>
  /\ fi' = fi + 1
  /\ pc' = "g_loop"
  /\ UNCHANGED <<callVars, map_data, projVars, cleanVars, plotVars, err, result, heatVars,
                 frames_data, duration, rendered>>

\* lines 244-251: savefig, Image.open, append, plt.close(fig)
GifEncodeFrame ==
  /\ pc = "g_savefig"
  /\ frames' = Append(frames, canvas)
  /\ trace' = trace \o <<"savefig", "close">>
  /\ figs' = figs - 1
  /\ canvas' = <<>>
  /\ fi' = fi + 1
  /\ pc' = "g_loop"
  /\ UNCHANGED <<callVars, map_data, projVars, cleanVars, plotVars, err, result, heatVars,
                 frames_data, duration, rendered, output>>

\* lines 253, 276-283: frames[0].save(..., append_images=frames[1:], ...)
GifSave ==
  /\ pc = "g_loop"
  /\ fi > Len(frames_data)
  /\ IF frames = <<>>
     THEN /\ pc' = "raised"
          /\ err' = Exc("IndexError", "frames")
          /\ output' = output
     ELSE /\ pc' = "done"
          /\ output' = Some([frames |-> <<frames[1]>> \o Tail(frames),
                             duration |-> duration, loop |-> 0])
          /\ err' = err
  /\ UNCHANGED <<callVars, map_data, projVars, cleanVars, plotVars, figs, canvas, trace, result, heatVars,
                 frames_data, duration, fi, rendered, frames>>

(***************************************************************************)
(* heatmap(map_name, points, method, is_lower, size, cmap, alpha,          *)
(*         vary_alpha, vary_alpha_range, kde_lower_bound)                  *)
(***************************************************************************)
MethodArgs == {"hex", "hist", "kde", "invalid"}

\* vary_alpha_range arguments, in tenths
RangeArgs ==
  { None, Some(<<2, 9>>), Some(<<5, 5>>), Some(<<0, 10>>), Some(<<9, 1>>),
    Some(<<5, 5, 5>>), Some(<<-1, 5>>), Some(<<5, 11>>), Some(<<5>>) }

\* alpha arguments, in tenths
AlphaArgs == {5, 12}

\* kde_lower_bound arguments, in tenths
KdeLowerBoundArgs == {1, 5}

CallHeatmap ==
  /\ pc = "idle"
  /\ \E m \in CallMaps, l \in BOOLEAN, e \in BOOLEAN, p \in HeatPointLists,
        me \in MethodArgs, va \in BOOLEAN, r \in RangeArgs, a \in AlphaArgs,
        kl \in KdeLowerBoundArgs :
       /\ op' = "heatmap" /\ map_name' = m /\ is_lower' = l /\ img_exists' = e
       /\ points' = p /\ method' = me /\ vary_alpha' = va
       /\ vary_alpha_range' = r /\ alpha' = a /\ kde_lower_bound' = kl
  /\ pc' = "h_image"
  /\ UNCHANGED <<point_settings, i, figs, canvas, trace, err, result,
                 min_alpha, max_alpha, temp_points, x, y, warned, grid, layer,
                 gifVars,
                 map_data, projVars, cleanVars>>

\* lines 325-335
HeatmapLoadMap ==
  /\ pc = "h_image"
  /\ figs' = figs + 1
  /\ IF ~img_exists
     THEN /\ pc' = "raised"
          /\ err' = Exc("FileNotFoundError", "map_image")
          /\ trace' = trace \o <<"subplots">>
          /\ canvas' = <<>>
     ELSE /\ pc' = "h_filter"
          /\ trace' = trace \o <<"subplots", "imread", "imshow">>
          /\ canvas' = << DrawOp("imshow", 0, 500, "", 0, 0, 0, 0) >>
          /\ err' = err
  /\ UNCHANGED <<callVars, map_data, projVars, cleanVars, plotVars, result, heatVars, gifVars>>

\* lines 338-351 with line 344 testing the point's level only
RECURSIVE FilterLoop_upper_only(_, _, _, _, _, _)
FilterLoop_upper_only(map, lower, temp, k, acc, warning) ==
  IF k > Len(temp) THEN [points |-> acc, warning |-> warning]
  ELSE IF ~is_position_on_lower_level(map, temp[k])
       THEN FilterLoop_upper_only(map, lower, temp, k + 1, Append(acc, temp[k]), warning)
       ELSE FilterLoop_upper_only(map, lower, temp, k + 1, acc, "ignored")

\* lines 338-351: the loop over temp_points, from index k on
RECURSIVE FilterLoop(_, _, _, _, _, _)
FilterLoop(map, lower, temp, k, acc, warning) ==
  IF k > Len(temp) THEN [points |-> acc, warning |-> warning]
  ELSE IF is_position_on_lower_level(map, temp[k]) = lower
       THEN FilterLoop(map, lower, temp, k + 1, Append(acc, temp[k]), warning)
       ELSE FilterLoop(map, lower, temp, k + 1, acc, "ignored")

\* lines 337-353
HeatmapFilter ==
  /\ pc = "h_filter"
  /\ temp_points' = points
  /\ LET r == FilterLoop(map_name, is_lower, points, 1, <<>>, "")
     IN  /\ points' = r.points
         /\ warned' = IF r.warning # "" THEN warned + 1 ELSE warned
         /\ trace' = trace \o [k \in 1..Len(points) |-> "is_position_on_lower_level"]
                           \o (IF r.warning # "" THEN <<"warn">> ELSE <<>>)
  /\ pc' = "h_transform"
  /\ UNCHANGED <<callVars, map_data, projVars, cleanVars, point_settings, i, figs, canvas, err, result,
                 method, vary_alpha, vary_alpha_range, alpha, min_alpha,
                 max_alpha, x, y, kde_lower_bound, grid, layer, gifVars>>

\* lines 355-357
HeatmapTransform ==
  /\ pc = "h_transform"
  /\ x' = [k \in 1..Len(points) |-> position_transform_axis(map_name, points[k][1], "x")]
  /\ y' = [k \in 1..Len(points) |-> position_transform_axis(map_name, points[k][2], "y")]
  /\ trace' = trace \o [k \in 1..Len(points) |-> "position_transform_axis"]
  /\ pc' = "h_alpha"
  /\ UNCHANGED <<callVars, map_data, projVars, cleanVars, plotVars, figs, canvas, err, result, method,
                 vary_alpha, vary_alpha_range, alpha, min_alpha, max_alpha,
                 temp_points, warned, kde_lower_bound, grid, layer, gifVars>>

\* lines 364-380 without the check of lines 376-380
RangeError_unordered(r) ==
  IF Len(r) # 2 THEN "length"
  ELSE IF ~(r[1] >= 0 /\ r[1] <= 10) \/ ~(r[2] >= 0 /\ r[2] <= 10) THEN "bounds"
  ELSE ""

\* lines 364-380: which check rejects the list r, "" if none does
RangeError(r) ==
  IF Len(r) # 2 THEN "length"
  ELSE IF ~(r[1] >= 0 /\ r[1] <= 10) \/ ~(r[2] >= 0 /\ r[2] <= 10) THEN "bounds"
  ELSE IF r[1] > r[2] THEN "order"
  ELSE ""

\* lines 359-381
HeatmapAlphaRange ==
  /\ pc = "h_alpha"
  /\ IF vary_alpha
     THEN LET r == IF vary_alpha_range = None THEN <<0, alpha>>
                   ELSE vary_alpha_range[1]
          IN  /\ vary_alpha_range' = Some(r)
              /\ IF RangeError(r) # ""
                 THEN /\ pc' = "raised"
                      /\ err' = Exc("ValueError", "vary_alpha_range")
                      /\ UNCHANGED <<min_alpha, max_alpha>>
                 ELSE /\ pc' = "h_method"
                      /\ min_alpha' = r[1] /\ max_alpha' = r[2]
                      /\ err' = err
     ELSE /\ pc' = "h_method"
          /\ min_alpha' = 0 /\ max_alpha' = 10
          /\ UNCHANGED <<vary_alpha_range, err>>
  /\ UNCHANGED <<callVars, map_data, projVars, cleanVars, plotVars, figs, canvas, trace, result, method,
                 vary_alpha, alpha, temp_points, x, y, warned, kde_lower_bound,
                 grid, layer, gifVars>>

\* line 430: scipy's gaussian_kde rejects an empty dataset with ValueError;
\* with fewer than three distinct points the covariance is singular and the
\* outcome depends on the scipy build (LinAlgError or a degenerate estimate)
KdeOutcomes(xs, ys) ==
  LET pts == {<<xs[k], ys[k]>> : k \in 1..Len(xs)}
  IN  IF Len(xs) = 0 THEN {"ValueError"}
      ELSE IF Cardinality(pts) < 3 THEN {"LinAlgError", "ok"}
      ELSE {"ok"}

\* lines 383-456 with the kde branch taken as the final else
MethodBranch_kde_else(me) ==
  IF me = "hex" THEN "hexbin"
  ELSE IF me = "hist" THEN "histogram2d"
  ELSE "gaussian_kde"

\* lines 383-456: the branch taken for a method
MethodBranch(me) ==
  IF me = "hex" THEN "hexbin"
  ELSE IF me = "hist" THEN "histogram2d"
  ELSE IF me = "kde" THEN "gaussian_kde"
  ELSE "invalid"

(***************************************************************************)
(* The arrays the libraries hand back.  Which cell a point falls in is     *)
(* decided by matplotlib / numpy, and the density of a cell by scipy: any  *)
(* assignment of the n points to the cells, and any positive densities,    *)
(* are taken.  NaN is the empty sequence, a number v is <<v>>, and an      *)
(* alpha is a fraction <<numerator, denominator>> of tenths.               *)
(***************************************************************************)
NaN == <<>>
Frac(n, d) == <<n, d>>

Densities == {1, 5, 20}

CountsOf(f, n) == [c \in 1..GridCells |-> Cardinality({k \in 1..n : f[k] = c})]

LibraryGrids(b, n) ==
  IF b = "gaussian_kde" THEN [1..GridCells -> Densities]
  ELSE {CountsOf(f, n) : f \in [1..n -> 1..GridCells]}

\* ndarray.max() of an array of numbers
ArrMax(a) == CHOOSE v \in {a[k] : k \in 1..Len(a)} : \A k \in 1..Len(a) : a[k] <= v

\* ndarray.max() of an array that may hold NaN: NaN if any element is NaN
NanMax(a) ==
  IF \E k \in 1..Len(a) : a[k] = NaN THEN NaN
  ELSE Some(ArrMax([k \in 1..Len(a) |-> a[k][1]]))

\* lines 385-399 with line 393 scaling by max_alpha only
HexLayer_no_offset(counts, vary, lo, hi, a) ==
  LET cmax == ArrMax(counts)
      alphas == [k \in 1..Len(counts) |->
                   IF cmax = 0 THEN NaN
                   ELSE Frac(counts[k] * hi, cmax)]
  IN  [k \in 1..Len(counts) |->
         [value |-> IF counts[k] = 0 THEN NaN ELSE Some(counts[k]),
          alpha |-> IF vary THEN alphas[k] ELSE Frac(a, 1)]]

\* lines 385-399: hexbin counts to the value and alpha of every hexagon
HexLayer(counts, vary, lo, hi, a) ==
  LET cmax == ArrMax(counts)
      alphas == [k \in 1..Len(counts) |->
                   IF cmax = 0 THEN NaN
                   ELSE Frac(counts[k] * (hi - lo) + lo * cmax, cmax)]
  IN  [k \in 1..Len(counts) |->
         [value |-> IF counts[k] = 0 THEN NaN ELSE Some(counts[k]),
          alpha |-> IF vary THEN alphas[k] ELSE Frac(a, 1)]]

\* lines 408-425 and 441-453: arr / arr.max(), then the alpha channel
\* np.where(np.isnan(norm), 0, norm * (max_alpha - min_alpha) + min_alpha)
MeshLayer(arr, vary, lo, hi, a) ==
  LET amax == NanMax(arr)
      norm == [k \in 1..Len(arr) |->
                 IF arr[k] = NaN \/ amax = NaN THEN NaN
                 ELSE Frac(arr[k][1], amax[1])]
  IN  [k \in 1..Len(arr) |->
         [value |-> arr[k],
          alpha |-> IF ~vary THEN Frac(a, 1)
                    ELSE IF norm[k] = NaN THEN Frac(0, 1)
                    ELSE Frac(norm[k][1] * (hi - lo) + lo * norm[k][2], norm[k][2])]]

\* lines 402-425: hist[hist == 0] = np.nan comes before hist.max()
HistLayer(counts, vary, lo, hi, a) ==
  LET hist == [k \in 1..Len(counts) |->
                 IF counts[k] = 0 THEN NaN ELSE Some(counts[k])]
  IN  MeshLayer(hist, vary, lo, hi, a)

\* lines 435-453: zi[zi < threshold] = np.nan comes before the second zi.max()
KdeLayer(zi0, klb, vary, lo, hi, a) ==
  LET zmax == ArrMax(zi0)
      zi == [k \in 1..Len(zi0) |->
               IF zi0[k] * 10 < zmax * klb THEN NaN ELSE Some(zi0[k])]
  IN  MeshLayer(zi, vary, lo, hi, a)

\* matplotlib's set_alpha rejects an array holding NaN (line 395, when no
\* point is left) with ValueError in the builds that validate it
LibraryOutcomes(b, g, vary, xs, ys) ==
  IF b = "gaussian_kde" THEN KdeOutcomes(xs, ys)
  ELSE IF b = "hexbin" /\ vary /\ ArrMax(g) = 0 THEN {"ValueError", "ok"}
  ELSE {"ok"}

\* lines 383-456
HeatmapMethod ==
  /\ pc = "h_method"
  /\ LET b == MethodBranch(method)
     IN  IF b = "invalid"
         THEN /\ pc' = "raised"
              /\ err' = Exc("ValueError", "method")
              /\ UNCHANGED <<canvas, trace, grid, layer>>
         ELSE \E g \in LibraryGrids(b, Len(x)) :
              \E o \in LibraryOutcomes(b, g, vary_alpha, x, y) :
                /\ trace' = Append(trace, b)
                /\ IF o = "ok"
                   THEN /\ pc' = "h_finish"
                        /\ grid' = g
                        /\ layer' =
                             IF b = "hexbin"
                             THEN HexLayer(g, vary_alpha, min_alpha, max_alpha, alpha)
                             ELSE IF b = "histogram2d"
                             THEN HistLayer(g, vary_alpha, min_alpha, max_alpha, alpha)
                             ELSE KdeLayer(g, kde_lower_bound, vary_alpha,
                                           min_alpha, max_alpha, alpha)
                        /\ canvas' = Append(canvas,
                             DrawOp(b, 0, IF vary_alpha THEN max_alpha * 100
                                          ELSE alpha * 100, "RdYlGn", 0, 0, 0, 0))
                        /\ err' = err
                   ELSE /\ pc' = "raised"
                        /\ err' = Exc(o, b)
                        /\ UNCHANGED <<canvas, grid, layer>>
  /\ UNCHANGED <<callVars, map_data, projVars, cleanVars, plotVars, figs, result, method, vary_alpha,
                 vary_alpha_range, alpha, min_alpha, max_alpha, temp_points,
                 x, y, warned, kde_lower_bound, gifVars>>

\* lines 458-462, with the zoom of the map's record rewritten on the way out
HeatmapFinish_writes_zoom ==
  /\ pc = "h_finish"
  /\ trace' = trace \o <<"axis_off", "set_facecolor", "tight_layout">>
  /\ pc' = "done"
  /\ result' = Some(canvas)
  /\ map_data' = [map_data EXCEPT ![map_name].zoom = Some(1)]
  /\ UNCHANGED <<callVars, projVars, cleanVars, plotVars, figs, canvas, err,
                 heatVars, gifVars>>

\* lines 458-462
HeatmapFinish ==
  /\ pc = "h_finish"
  /\ trace' = trace \o <<"axis_off", "set_facecolor", "tight_layout">>
  /\ pc' = "done"
  /\ result' = Some(canvas)
  /\ UNCHANGED <<callVars, map_data, projVars, cleanVars, plotVars, figs, canvas, err, heatVars, gifVars>>

(***************************************************************************)
(* position_transform_axis(map_name, position, axis), as plot.py calls it   *)
(* at lines 102-103 and 356-357, for positions a whole number of pixels    *)
(* away from the map's origin.                                             *)
(***************************************************************************)
PixelSteps == -1..2

\* the position k pixels from the origin of the axis, as <<whole, millionths>>
AtPixel(m, ax, k) ==
  LET o == IF ax = "x" THEN map_data[m].pos_x ELSE map_data[m].pos_y
      d == k * map_data[m].scale
  IN  <<o + d \div 1000000, d % 1000000>>

CallProject ==
  /\ pc = "idle"
  /\ \E m \in DOMAIN map_data, ax \in {"x", "y"}, k \in PixelSteps :
       /\ op' = "project" /\ map_name' = m /\ axis' = ax
       /\ world' = AtPixel(m, ax, k)
       /\ pixel' = Some(project(m, AtPixel(m, ax, k)[1], AtPixel(m, ax, k)[2], ax))
  /\ pc' = "done"
  /\ UNCHANGED <<is_lower, img_exists, plotVars, figs, canvas, trace, err,
                 result, heatVars, gifVars, map_data, cleanVars>>

(***************************************************************************)
(* awpy/parser/cleaning.py.  A name is the sequence of its characters; an  *)
(* optional name is None or Some(name), so "" is Some(<<>>).  A distance   *)
(* is a fraction <<numerator, denominator>>.                               *)
(***************************************************************************)
MaxNames == 2

GameNameArgs == {None, Some(<<>>), Some(<<"a", "b">>), Some(<<"B">>)}
EntityNameArgs == {<<"a", "b">>, <<"A", "b">>, <<"b">>}
MetricArgs == {"lcss", "LCSS", "hamming", "levenshtein", "jaro", "Jaro",
               "difflib", "DIFFLIB", "cosine", ""}

\* str.lower() on the metric arguments
LowerMetric(me) ==
  CASE me = "LCSS" -> "lcss"
    [] me = "Jaro" -> "jaro"
    [] me = "DIFFLIB" -> "difflib"
    [] OTHER -> me

\* str.lower() on a name
LowerChar(c) ==
  CASE c = "A" -> "a"
    [] c = "B" -> "b"
    [] OTHER -> c
LowerName(n) == [k \in 1..Len(n) |-> LowerChar(n[k])]

Max2(a, b) == IF a >= b THEN a ELSE b
Min2(a, b) == IF a <= b THEN a ELSE b

\* textdistance.lcsseq.distance: longest length minus the length of the
\* longest common subsequence
RECURSIVE LcsLen(_, _)
LcsLen(a, b) ==
  IF a = <<>> \/ b = <<>> THEN 0
  ELSE IF Head(a) = Head(b) THEN 1 + LcsLen(Tail(a), Tail(b))
  ELSE Max2(LcsLen(Tail(a), b), LcsLen(a, Tail(b)))
lcsseq_distance(a, b) == <<Max2(Len(a), Len(b)) - LcsLen(a, b), 1>>

\* textdistance.hamming.distance: the positions, up to the longer length,
\* at which the two differ
hamming_distance(a, b) ==
  <<Cardinality({k \in 1..Max2(Len(a), Len(b)) :
                   k > Len(a) \/ k > Len(b) \/ a[k] # b[k]}), 1>>

\* textdistance.levenshtein.distance
RECURSIVE EditDistance(_, _)
EditDistance(a, b) ==
  IF a = <<>> THEN Len(b)
  ELSE IF b = <<>> THEN Len(a)
  ELSE IF Head(a) = Head(b) THEN EditDistance(Tail(a), Tail(b))
  ELSE 1 + Min2(EditDistance(Tail(a), Tail(b)),
                Min2(EditDistance(Tail(a), b), EditDistance(a, Tail(b))))
levenshtein_distance(a, b) == <<EditDistance(a, b), 1>>

\* textdistance.jaro.distance = 1 - similarity, for names of at most three
\* characters: the search range max(len) // 2 - 1 is 0, so only characters
\* at the same position match and there are no transpositions
jaro_distance(a, b) ==
  LET c == Cardinality({k \in 1..Min2(Len(a), Len(b)) : a[k] = b[k]})
  IN  IF a = b THEN <<0, 1>>
      ELSE IF c = 0 THEN <<1, 1>>
      ELSE <<3 * Len(a) * Len(b) - (c * Len(b) + c * Len(a) + Len(a) * Len(b)),
             3 * Len(a) * Len(b)>>

DistMetrics == {"lcss", "hamming", "levenshtein", "jaro"}

\* lines 25-36: the callable _set_distance_metric returns, applied to (a, b)
dist_metric(me, a, b) ==
  CASE me = "lcss" -> lcsseq_distance(a, b)
    [] me = "hamming" -> hamming_distance(a, b)
    [] me = "levenshtein" -> levenshtein_distance(a, b)
    [] me = "jaro" -> jaro_distance(a, b)

DistLess(d, e) == d[1] * e[2] < e[1] * d[2]

\* np.argmin: the first index of a smallest element
argmin(ds) ==
  CHOOSE k \in 1..Len(ds) :
    /\ \A j \in 1..Len(ds) : ~DistLess(ds[j], ds[k])
    /\ \A j \in 1..(k - 1) : DistLess(ds[k], ds[j])

\* list.pop(k)
Pop(l, k) == SubSeq(l, 1, k - 1) \o SubSeq(l, k + 1, Len(l))

\* entities[key] = value
Put(d, key, value) == {e \in d : e[1] # key} \cup {<<key, value>>}

GameNameLists == SeqsUpTo(GameNameArgs, MaxNames)
EntityNameLists == SeqsUpTo(EntityNameArgs, MaxNames)

\* lines 39-66
CallAssociate ==
  /\ pc = "idle"
  /\ \E g \in OptLists(GameNameLists), e \in OptLists(EntityNameLists),
        me \in MetricArgs :
       /\ op' = "associate_entities" /\ metric' = me
       /\ names_given' = e
       /\ game_names' = IF g = None THEN <<>> ELSE g[1]
       /\ entity_names' = IF e = None THEN <<>> ELSE e[1]
       /\ entity_ids' = IF e = None THEN <<>> ELSE [k \in 1..Len(e[1]) |-> k]
  /\ entities' = {} /\ gn_i' = 1 /\ matches' = <<>>
  /\ pc' = "a_metric"
  /\ UNCHANGED <<map_name, is_lower, img_exists, plotVars, figs, canvas, trace,
                 err, result, heatVars, gifVars, map_data, projVars>>

\* line 80 without the .lower()
AssociateMetric_case_sensitive ==
  /\ pc = "a_metric"
  /\ IF LowerMetric(metric) = "difflib"
     THEN pc' = "a_difflib" /\ err' = err
     ELSE IF metric \in DistMetrics
     THEN pc' = "a_loop" /\ err' = err
     ELSE pc' = "raised" /\ err' = Exc("ValueError", "metric")
  /\ UNCHANGED <<callVars, map_data, projVars, cleanVars, plotVars, figs,
                 canvas, trace, result, heatVars, gifVars>>

\* lines 67 and 80 (with _set_distance_metric, lines 25-36)
AssociateMetric ==
  /\ pc = "a_metric"
  /\ IF LowerMetric(metric) = "difflib"
     THEN pc' = "a_difflib" /\ err' = err
     ELSE IF LowerMetric(metric) \in DistMetrics
     THEN pc' = "a_loop" /\ err' = err
     ELSE pc' = "raised" /\ err' = Exc("ValueError", "metric")
  /\ UNCHANGED <<callVars, map_data, projVars, cleanVars, plotVars, figs,
                 canvas, trace, result, heatVars, gifVars>>

\* lines 68-76: one name of the difflib loop; get_close_matches with cutoff
\* 0.0 returns the entity name difflib scores best, or nothing from an
\* empty list
AssociateDifflib ==
  /\ pc = "a_difflib" /\ gn_i <= Len(game_names)
  /\ LET gn == game_names[gn_i]
     IN  IF gn = None THEN entities' = entities
         ELSE IF entity_names = <<>> THEN entities' = Put(entities, gn, None)
         ELSE \E k \in 1..Len(entity_names) :
                entities' = Put(entities, gn, Some(entity_names[k]))
  /\ gn_i' = gn_i + 1
  /\ UNCHANGED <<callVars, map_data, projVars, metric, game_names,
                 entity_names, entity_ids, matches, names_given, pc, plotVars,
                 figs, canvas, trace, err, result, heatVars, gifVars>>

\* lines 81-92 with the last smallest distance taken on ties
AssociateName_last_on_ties ==
  /\ pc = "a_loop" /\ gn_i <= Len(game_names)
  /\ LET gn == game_names[gn_i]
         name_distances ==
           [k \in 1..Len(entity_names) |->
              dist_metric(LowerMetric(metric), LowerName(gn[1]),
                          LowerName(entity_names[k]))]
         k == CHOOSE c \in 1..Len(entity_names) :
                /\ \A j \in 1..Len(entity_names) :
                     ~DistLess(name_distances[j], name_distances[c])
                /\ \A j \in (c + 1)..Len(entity_names) :
                     DistLess(name_distances[c], name_distances[j])
     IN  IF gn # None /\ gn # Some(<<>>) /\ Len(entity_names) > 0
         THEN /\ entities' = Put(entities, gn, Some(entity_names[k]))
              /\ entity_names' = Pop(entity_names, k)
              /\ entity_ids' = Pop(entity_ids, k)
              /\ matches' = Append(matches, <<gn_i, entity_ids[k]>>)
         ELSE /\ entities' = IF gn = Some(<<>>) THEN Put(entities, gn, None)
                             ELSE entities
              /\ UNCHANGED <<entity_names, entity_ids, matches>>
  /\ gn_i' = gn_i + 1
  /\ UNCHANGED <<callVars, map_data, projVars, metric, game_names, names_given,
                 pc, plotVars, figs, canvas, trace, err, result, heatVars,
                 gifVars>>

\* lines 81-92: one name of the matching loop
AssociateName ==
  /\ pc = "a_loop" /\ gn_i <= Len(game_names)
  /\ LET gn == game_names[gn_i]
         name_distances ==
           [k \in 1..Len(entity_names) |->
              dist_metric(LowerMetric(metric), LowerName(gn[1]),
                          LowerName(entity_names[k]))]
         k == argmin(name_distances)
     IN  IF gn # None /\ gn # Some(<<>>) /\ Len(entity_names) > 0
         THEN /\ entities' = Put(entities, gn, Some(entity_names[k]))
              /\ entity_names' = Pop(entity_names, k)
              /\ entity_ids' = Pop(entity_ids, k)
              /\ matches' = Append(matches, <<gn_i, entity_ids[k]>>)
         ELSE /\ entities' = IF gn = Some(<<>>) THEN Put(entities, gn, None)
                             ELSE entities
              /\ UNCHANGED <<entity_names, entity_ids, matches>>
  /\ gn_i' = gn_i + 1
  /\ UNCHANGED <<callVars, map_data, projVars, metric, game_names, names_given,
                 pc, plotVars, figs, canvas, trace, err, result, heatVars,
                 gifVars>>

\* lines 77-78 and 93-94
AssociateFinish ==
  /\ pc \in {"a_difflib", "a_loop"} /\ gn_i > Len(game_names)
  /\ entities' = Put(entities, None, None)
  /\ pc' = "done"
  /\ UNCHANGED <<callVars, map_data, projVars, metric, game_names,
                 entity_names, gn_i, entity_ids, matches, names_given,
                 plotVars, figs, canvas, trace, err, result, heatVars, gifVars>>

Next ==
  \/ CallPlot \/ PlotLoadImage \/ PlotCheck \/ PlotPoint \/ PlotFinish
  \/ CallGif \/ GifNextFrame \/ GifEncodeFrame \/ GifSave
  \/ CallHeatmap \/ HeatmapLoadMap \/ HeatmapFilter \/ HeatmapTransform
  \/ HeatmapAlphaRange \/ HeatmapMethod \/ HeatmapFinish
  \/ CallProject
  \/ CallAssociate \/ AssociateMetric \/ AssociateDifflib \/ AssociateName
  \/ AssociateFinish

Spec == Init /\ [][Next]_vars

(***************************************************************************)
(* Properties.                                                             *)
(***************************************************************************)
Terminated == pc \in {"done", "raised"}

ValidationErrors == { Exc("ValueError", "point_settings"),
                      Exc("ValueError", "method"),
                      Exc("ValueError", "vary_alpha_range") }

\* C1: when plot raises ValueError for unequal numbers of points and
\* point_settings, nothing has been drawn on the figure.
C1_NoDrawingBeforeMismatchError ==
  (pc = "raised" /\ err = Exc("ValueError", "point_settings")) => canvas = <<>>

\* C2: heatmap with a method other than hex, hist, kde never returns a figure;
\* it ends by raising ValueError, whatever the points, the level and the
\* vary_alpha settings.
C2_InvalidMethodRaises ==
  (op = "heatmap" /\ method \notin {"hex", "hist", "kde"}) =>
     /\ pc \notin {"h_finish", "done"}
     /\ result = None
     /\ (pc = "raised" /\ img_exists) => err[1].type = "ValueError"

C2_Witness ==
  /\ op = "heatmap" /\ method = "invalid" /\ pc = "raised"
  /\ err = Exc("ValueError", "method")
  /\ temp_points # <<>> /\ points = <<>> /\ vary_alpha

\* the range is a pair [min, max] with 0 <= min <= max <= 1 (in tenths)
ValidPair(r) ==
  /\ Len(r) = 2
  /\ 0 <= r[1] /\ r[1] <= 10
  /\ 0 <= r[2] /\ r[2] <= 10
  /\ r[1] <= r[2]

PastAlphaRange ==
  /\ op = "heatmap"
  /\ \/ pc \in {"h_method", "h_finish", "done"}
     \/ pc = "raised" /\ err[1].site # "map_image"

C4_EagerValidation ==
  (op = "heatmap" /\ pc = "raised" /\ err \in ValidationErrors) =>
     /\ warned = 0
     /\ \A k \in 1..Len(trace) :
          trace[k] \notin {"imread", "imshow", "is_position_on_lower_level",
                           "warn", "position_transform_axis"}

PastFilter ==
  /\ op = "heatmap"
  /\ \/ pc \in {"h_transform", "h_alpha", "h_method", "h_finish", "done"}
     \/ pc = "raised" /\ err[1].site # "map_image"

SameLevelAsView(p) == is_position_on_lower_level(map_name, p) = is_lower

\* C5: the heatmap filter keeps exactly the points whose level equals the
\* requested one, in input order; it warns once if a point was dropped and
\* not at all otherwise, and leaves the call running.
C5_LevelFilter ==
  /\ PastFilter =>
       /\ points = SelectSeq(temp_points, SameLevelAsView)
       /\ warned = (IF Len(points) < Len(temp_points) THEN 1 ELSE 0)
  /\ (op = "heatmap" /\ pc = "h_transform") => err = None

C5_Witness ==
  /\ op = "heatmap" /\ pc = "done" /\ warned = 1
  /\ Len(temp_points) = 2 /\ Len(points) = 1

\* the alpha the specification gives a point, in thousandths
SpecAlpha(hp, point_lower, view_lower) ==
  LET baseline == IF hp # None /\ hp[1] = 0 THEN 150 ELSE 1000
  IN  CASE point_lower /\ ~view_lower -> (baseline * 4) \div 10
        [] ~point_lower /\ view_lower -> 0
        [] OTHER -> baseline

\* C6: everything plot draws for a point has the alpha 0.15 (hp = 0) or 1.0,
\* times 0.4 for a lower-level point on the upper view, 0 for an upper-level
\* point on the lower view; so one of 0, 0.06, 0.15, 0.4, 1.0.
C6_ResolvedAlpha ==
  (op \in {"plot", "gif"}) =>
     \A k \in 1..Len(canvas) :
        canvas[k].pt >= 1 =>
          /\ canvas[k].alpha =
               SpecAlpha(point_settings[1][canvas[k].pt].hp,
                         is_position_on_lower_level(map_name, points[1][canvas[k].pt]),
                         is_lower)
          /\ canvas[k].alpha \in {0, 60, 150, 400, 1000}

C6_Witness ==
  /\ op = "plot" /\ pc = "done"
  /\ \E k \in 1..Len(canvas) : canvas[k].kind = "marker" /\ canvas[k].alpha = 60

\* C7: plot only fails at validation or at the image lookup.
C7_NoFailureAfterValidation ==
  (op = "plot" /\ pc = "raised") =>
     err[1].type \in {"ValueError", "FileNotFoundError"}

FrameValid(f) ==
  \/ f.points = None
  \/ f.point_settings = None
  \/ Len(f.points[1]) = Len(f.point_settings[1])

\* C8: gif on N frames with matching counts calls plot once per frame, in
\* order, and writes a looping file of N frames with the given duration.
C8_ExportAllFrames ==
  /\ op = "gif" => rendered = [k \in 1..Len(rendered) |-> k]
  /\ (op = "gif" /\ Terminated /\ img_exists
        /\ \A k \in 1..Len(frames_data) : FrameValid(frames_data[k])) =>
       /\ pc = "done"
       /\ rendered = [k \in 1..Len(frames_data) |-> k]
       /\ output # None
       /\ Len(output[1].frames) = Len(frames_data)
       /\ output[1].duration = duration /\ output[1].loop = 0

\* C9: during gif at most one figure is open, and none when gif has returned
\* or raised.
C9_SurfacesReleased ==
  op = "gif" => (figs <= 1 /\ (Terminated => figs = 0))

\* C10: when a frame fails in gif, no later frame is rendered and no file is
\* written; a file exists only if all frames were rendered.
C10_NoPartialFile ==
  op = "gif" =>
     /\ output # None =>
          /\ pc = "done"
          /\ Len(frames) = Len(frames_data)
          /\ Len(output[1].frames) = Len(frames_data)
     /\ pc = "raised" =>
          /\ output = None
          /\ err # Exc("IndexError", "frames") =>
               (rendered = [k \in 1..fi |-> k] /\ Len(frames) = fi - 1)

C10_Witness ==
  /\ op = "gif" /\ pc = "raised" /\ output = None
  /\ fi = 1 /\ Len(frames_data) = 2 /\ rendered = <<1>> /\ frames = <<>>
  /\ err = Exc("ValueError", "point_settings")

\* comparison of fractions with positive denominators
FracEq(a, b) == a[1] * b[2] = b[1] * a[2]
FracLe(a, b) == a[1] * b[2] <= b[1] * a[2]
FracLt(a, b) == a[1] * b[2] < b[1] * a[2]

\* the largest count (or density) the library returned
MaxInGrid == CHOOSE m \in {grid[k] : k \in 1..Len(grid)} :
               \A k \in 1..Len(grid) : grid[k] <= m

\* vary_alpha_range[0] + (v / max) * (vary_alpha_range[1] - vary_alpha_range[0])
RescaledAlpha(v, max) ==
  Frac(vary_alpha_range[1][1] * max
         + v * (vary_alpha_range[1][2] - vary_alpha_range[1][1]), max)

HexDone == op = "heatmap" /\ method = "hex" /\ pc \in {"h_finish", "done"}

\* the part of C11 that does not depend on how the range is bounded
HexCellRule(k) ==
  /\ grid[k] = 0 => layer[k].value = NaN
  /\ (grid[k] > 0 /\ ~vary_alpha) =>
       (layer[k].value # NaN /\ FracEq(layer[k].alpha, Frac(alpha, 1)))
  /\ (grid[k] > 0 /\ vary_alpha) =>
       /\ layer[k].value # NaN
       /\ FracEq(layer[k].alpha, RescaledAlpha(grid[k], MaxInGrid))
       /\ grid[k] = MaxInGrid =>
            FracEq(layer[k].alpha, Frac(vary_alpha_range[1][2], 1))
       /\ \A j \in 1..Len(layer) :
            (grid[j] > 0 /\ grid[j] <= grid[k]) =>
              FracLe(layer[j].alpha, layer[k].alpha)

\* C11 as stated: hex cells with no point are transparent; a cell with c > 0
\* points has alpha base_alpha, or with vary_alpha the alpha
\* range[0] + (c / max_count) * (range[1] - range[0]), which is range[1] for
\* the fullest cell, lies in (range[0], range[1]] and does not decrease in c.
C11_HexAlphaOpenInterval ==
  HexDone =>
    \A k \in 1..Len(layer) :
      /\ HexCellRule(k)
      /\ (grid[k] > 0 /\ vary_alpha) =>
           /\ FracLt(Frac(vary_alpha_range[1][1], 1), layer[k].alpha)
           /\ FracLe(layer[k].alpha, Frac(vary_alpha_range[1][2], 1))

\* C11 amended: as above, but the alpha of a non-empty cell lies in
\* [range[0], range[1]], and is above range[0] when range[0] < range[1].
C11_HexAlpha ==
  HexDone =>
    \A k \in 1..Len(layer) :
      /\ HexCellRule(k)
      /\ (grid[k] > 0 /\ vary_alpha) =>
           /\ FracLe(Frac(vary_alpha_range[1][1], 1), layer[k].alpha)
           /\ FracLe(layer[k].alpha, Frac(vary_alpha_range[1][2], 1))
           /\ vary_alpha_range[1][1] < vary_alpha_range[1][2] =>
                FracLt(Frac(vary_alpha_range[1][1], 1), layer[k].alpha)

C11_Witness ==
  /\ HexDone /\ pc = "done" /\ vary_alpha /\ vary_alpha_range = Some(<<2, 9>>)
  /\ \E j, k \in 1..Len(layer) :
       /\ grid[j] = 1 /\ grid[k] = 2
       /\ layer[j].alpha = Frac(11, 2) /\ layer[k].alpha = Frac(18, 2)

HistDone == op = "heatmap" /\ method = "hist" /\ pc \in {"h_finish", "done"}

\* C12: histogram bins follow the same rule as hexagons: an empty bin is
\* transparent, a bin with c > 0 points has alpha base_alpha, or with
\* vary_alpha the alpha range[0] + (c / max_count) * (range[1] - range[0]),
\* so the fullest bin gets range[1], also when other bins are empty.
C12_HistAlpha ==
  HistDone =>
    \A k \in 1..Len(layer) :
      /\ grid[k] = 0 => layer[k].value = NaN
      /\ (grid[k] > 0 /\ ~vary_alpha) =>
           (layer[k].value # NaN /\ FracEq(layer[k].alpha, Frac(alpha, 1)))
      /\ (grid[k] > 0 /\ vary_alpha) =>
           /\ layer[k].value # NaN
           /\ FracEq(layer[k].alpha, RescaledAlpha(grid[k], MaxInGrid))
           /\ grid[k] = MaxInGrid =>
                FracEq(layer[k].alpha, Frac(vary_alpha_range[1][2], 1))

KdeDone == op = "heatmap" /\ method = "kde" /\ pc \in {"h_finish", "done"}

\* C13: a density cell is suppressed exactly when its density is below
\* kde_lower_bound * max_density; with vary_alpha a surviving cell has alpha
\* range[0] + (d / max_density) * (range[1] - range[0]) with max_density the
\* largest density on the grid, and the densest cell survives and gets
\* range[1], also when other cells were suppressed.
C13_KdeAlpha ==
  KdeDone =>
    \A k \in 1..Len(layer) :
      /\ layer[k].value = NaN <=> grid[k] * 10 < kde_lower_bound * MaxInGrid
      /\ (layer[k].value # NaN /\ vary_alpha) =>
           /\ FracEq(layer[k].alpha, RescaledAlpha(grid[k], MaxInGrid))
           /\ grid[k] = MaxInGrid =>
                FracEq(layer[k].alpha, Frac(vary_alpha_range[1][2], 1))
      /\ grid[k] = MaxInGrid => layer[k].value # NaN

ProjectDone == op = "project" /\ pc = "done"

\* C14: for every registered map the origin projects to pixel 0 on both
\* axes and the position one scale unit further along x projects to pixel 1;
\* for de_dust2 (origin (-2476, 3239), scale 4.4) the point (-2476, 3239, 0)
\* projects to (0, 0) and (-2476 + 4.4, 3239, 0) to (1, 0).
C14_OriginAndUnitStep ==
  /\ ProjectDone =>
       /\ world = <<map_data[map_name].pos_x, 0>> /\ axis = "x" => pixel = Some(0)
       /\ world = <<map_data[map_name].pos_y, 0>> /\ axis = "y" => pixel = Some(0)
       /\ world = AtPixel(map_name, "x", 1) /\ axis = "x" => pixel = Some(1000)
  /\ (ProjectDone /\ map_name = "de_dust2") =>
       /\ world = <<-2476, 0>> /\ axis = "x" => pixel = Some(0)
       /\ world = <<3239, 0>> /\ axis = "y" => pixel = Some(0)
       /\ world = <<-2472, 400000>> /\ axis = "x" => pixel = Some(1000)

C14_Witness ==
  /\ ProjectDone /\ map_name = "de_dust2" /\ axis = "x"
  /\ world = <<-2472, 400000>> /\ pixel = Some(1000)

\* C15: every record of the map table has scale > 0 and a lower_level_max
\* that is a finite number or minus infinity (None here), and no sequence of
\* plot, heatmap, gif or projection calls changes any record of the table.
C15_MapTableImmutable ==
  /\ map_data = MAP_DATA
  /\ \A m \in DOMAIN map_data :
       /\ map_data[m].scale > 0
       /\ \/ map_data[m].lower_level_max = None
          \/ /\ Len(map_data[m].lower_level_max) = 1
             /\ map_data[m].lower_level_max[1] \in Int

C15_Witness ==
  /\ op = "heatmap" /\ pc = "done" /\ map_name = "de_nuke" /\ Len(x) > 0
  /\ map_data["de_nuke"] = MapRec(-3453, 2887, 7000000, None, None, Some(-495))

\* the metric arguments that name, in any case, one of the five metrics
AcceptedMetrics == {"lcss", "LCSS", "hamming", "levenshtein", "jaro", "Jaro",
                    "difflib", "DIFFLIB"}

Associating == op = "associate_entities"

\* C16: associate_entities raises ValueError exactly when the metric is not,
\* case-insensitively, one of lcss, hamming, levenshtein, jaro, difflib; it
\* does so whatever game_names and entity_names are (empty and None
\* included), and before any name is matched or any element removed.
C16_UnknownMetricRaises ==
  /\ (Associating /\ pc \in {"done", "raised"}) =>
       /\ pc = "raised" <=> metric \notin AcceptedMetrics
       /\ pc = "raised" => err = Exc("ValueError", "metric")
       /\ pc = "done" => err = None
  /\ (Associating /\ metric \notin AcceptedMetrics) =>
       /\ pc \in {"a_metric", "raised"}
       /\ entities = {} /\ matches = <<>> /\ gn_i = 1
       /\ entity_names = IF names_given = None THEN <<>> ELSE names_given[1]

C16_Witness ==
  /\ Associating /\ pc = "raised" /\ metric = "cosine"
  /\ game_names = <<Some(<<"a", "b">>)>>
  /\ names_given = Some(<<<<"a", "b">>, <<"b">>>>)
  /\ entity_names = <<<<"a", "b">>, <<"b">>>>

\* the metric arguments that select, in any case, a textdistance metric
DistanceMetricArgs == {"lcss", "LCSS", "hamming", "levenshtein", "jaro", "Jaro"}

Matching == Associating /\ metric \in DistanceMetricArgs

NamesGiven == IF names_given = None THEN <<>> ELSE names_given[1]

\* k is the first of the remaining entity names at the smallest distance from gn
FirstClosest(gn, k) ==
  LET d(j) == dist_metric(LowerMetric(metric), LowerName(gn[1]),
                          LowerName(entity_names[j]))
  IN  /\ \A j \in 1..Len(entity_names) : ~DistLess(d(j), d(k))
      /\ \A j \in 1..(k - 1) : DistLess(d(k), d(j))

\* one game name is processed: a non-empty name takes the first closest of
\* the remaining entity names, which is removed; with none left it adds
\* nothing
GreedyStep ==
  (Matching /\ pc = "a_loop" /\ gn_i' = gn_i + 1) =>
    LET gn == game_names[gn_i]
    IN  (gn # None /\ gn # Some(<<>>)) =>
          IF entity_names # <<>>
          THEN \E k \in 1..Len(entity_names) :
                 /\ FirstClosest(gn, k)
                 /\ <<gn, Some(entity_names[k])>> \in entities'
                 /\ entity_names' = Pop(entity_names, k)
                 /\ matches' = Append(matches, <<gn_i, entity_ids[k]>>)
          ELSE entities' = entities /\ entity_names' = entity_names

GreedyInvariant ==
  (Matching /\ pc \in {"a_loop", "done"}) =>
    /\ \A a, b \in 1..Len(matches) : a # b => matches[a][2] # matches[b][2]
    /\ \A a \in 1..Len(matches) : matches[a][2] \in 1..Len(NamesGiven)
    /\ Cardinality({e \in entities : e[2] # None}) <= Len(NamesGiven)
    /\ Len(entity_names) = Len(NamesGiven) - Len(matches)
    /\ entity_names = [k \in 1..Len(entity_ids) |-> NamesGiven[entity_ids[k]]]
    /\ pc = "done" => <<None, None>> \in entities

\* C19: with a textdistance metric the game names are processed in order
\* and matched greedily with removal: a non-empty, non-None name is mapped
\* to the first closest of the entity names still remaining, which is then
\* removed; so every position of the given entity_names is assigned at most
\* once, at most that many keys are mapped to an entity, a name processed
\* when no entity name is left adds no entry, the caller's list shrinks by
\* the number of matches, and the result contains None -> None.
C19_GreedyMatching == [][GreedyStep]_vars /\ []GreedyInvariant

C19_Witness ==
  /\ Matching /\ pc = "done" /\ metric = "LCSS"
  /\ game_names = <<Some(<<"a", "b">>), Some(<<"B">>)>>
  /\ names_given = Some(<<<<"a", "b">>, <<"A", "b">>>>)
  /\ matches = <<<<1, 1>>, <<2, 2>>>>
  /\ entity_names = <<>>
  /\ entities = {<<Some(<<"a", "b">>), Some(<<"a", "b">>)>>,
                 <<Some(<<"B">>), Some(<<"A", "b">>)>>, <<None, None>>}

\* the drawing operations of the given kind made for the k-th point
Drawn(kind, k) ==
  {canvas[j] : j \in {n \in 1..Len(canvas) :
                        canvas[n].kind = kind /\ canvas[n].pt = k}}

SizeOf(st) == IF st.size = None THEN 10 ELSE st.size[1]

\* the k-th point's body has run to its end
PointDrawn(k) ==
  /\ op = "plot" /\ points # None /\ point_settings # None
  /\ k \in 1..Len(point_settings[1])
  /\ pc \in {"p_loop", "p_finish", "done"} /\ k < i

\* the foreground f fills value/100 of the background b from its left edge
Fills(f, b, value) ==
  /\ f.dx = b.dx /\ f.dy = b.dy /\ f.h = b.h
  /\ f.w * 100 = b.w * value
  /\ f.w <= b.w

\* C17: with health present and > 0 the HP bar pair and the armor bar pair
\* are stacked without overlap for every size: the HP band starts at the bar
\* offset, the armor band exactly one bar height further; both backgrounds
\* have the same width and left edge; each foreground starts at that left
\* edge, has health/100 (armor/100) of the background's width and stays
\* inside its background.
C17_BarsStacked ==
  \A k \in 1..MaxPoints :
    PointDrawn(k) =>
      LET st == point_settings[1][k]
      IN  (st.hp # None /\ st.hp[1] > 0) =>
            /\ \A kind \in {"hp_bar_full", "hp_bar", "armor_bar_full", "armor_bar"} :
                 Cardinality(Drawn(kind, k)) = 1
            /\ \A hb \in Drawn("hp_bar_full", k), hf \in Drawn("hp_bar", k),
                  ab \in Drawn("armor_bar_full", k), af \in Drawn("armor_bar", k) :
                 /\ hb.dy * 10 = SizeOf(st) * 3500 /\ hb.h > 0 /\ hb.w > 0
                 /\ ab.dy = hb.dy + hb.h /\ ab.h = hb.h
                 /\ ab.w = hb.w /\ ab.dx = hb.dx
                 /\ Fills(hf, hb, st.hp[1])
                 /\ Fills(af, ab, st.armor[1])

C17_Witness ==
  /\ PointDrawn(1) /\ pc = "done"
  /\ point_settings[1][1].size = Some(1) /\ point_settings[1][1].hp = Some(100)
  /\ point_settings[1][1].armor = Some(50)
  /\ \E hb \in Drawn("hp_bar_full", 1), af \in Drawn("armor_bar", 1) :
       /\ hb.dx = -300 /\ hb.dy = 350 /\ hb.w = 600 /\ hb.h = 200
       /\ af.dx = -300 /\ af.dy = 550 /\ af.w = 300 /\ af.h = 200

HasLabel(st) == st.label # None /\ st.label[1] # ""

\* C18 as stated: a label is drawn horizontally centered on the point and
\* beneath the bars: its vertical anchor lies on the side of the marker
\* where the HP/armor bars are, at or beyond the bar vertical offset.
C18_LabelBeneathBars ==
  \A k \in 1..MaxPoints :
    (PointDrawn(k) /\ HasLabel(point_settings[1][k])) =>
      /\ Cardinality(Drawn("label", k)) = 1
      /\ \A l \in Drawn("label", k) :
           /\ l.dx = 0
           /\ l.dy * 10 >= SizeOf(point_settings[1][k]) * 3500
           /\ \A b \in Drawn("hp_bar_full", k) \cup Drawn("armor_bar_full", k) :
                l.dy >= b.dy

\* C18 amended: a label is drawn horizontally centered on the point, and its
\* vertical anchor lies on the side of the marker opposite to the bars, at a
\* distance of the bar vertical offset plus 1.25 bar heights (6 * size).
C18_LabelOppositeBars ==
  \A k \in 1..MaxPoints :
    (PointDrawn(k) /\ HasLabel(point_settings[1][k])) =>
      /\ Cardinality(Drawn("label", k)) = 1
      /\ \A l \in Drawn("label", k) :
           /\ l.dx = 0
           /\ 0 - l.dy = SizeOf(point_settings[1][k]) * (350 + 250)
           /\ \A b \in Drawn("hp_bar_full", k) \cup Drawn("armor_bar_full", k) :
                l.dy < 0 /\ 0 < b.dy

C18_Witness ==
  /\ PointDrawn(1) /\ pc = "done"
  /\ point_settings[1][1].size = Some(1) /\ point_settings[1][1].label = Some("d")
  /\ \E l \in Drawn("label", 1), b \in Drawn("hp_bar_full", 1) :
       l.dx = 0 /\ l.dy = -600 /\ b.dy = 350

====
